---- MODULE Spec2Model ----
(***************************************************************************)
(* Model of deep_sort/tracker.py (class Tracker): the active track list,   *)
(* the id counter and the covered ledger under predict() and update().     *)
(*                                                                         *)
(* Track (track.py), the matching cascade and min-cost matching            *)
(* (linear_assignment.py), the IOU cost (iou_matching.py) and the Kalman   *)
(* filter are not part of the modelled file.  The Track methods are        *)
(* modelled from the specification (sections 3, 4.5); the two assignment   *)
(* stages return any one-to-one partial matching of their candidates; the  *)
(* overlap test of is_Covered is an input of update().  A box is its       *)
(* (x, y) corner: width and height are never read by tracker.py.           *)
(***************************************************************************)
EXTENDS Integers, Sequences, FiniteSets, TLC

\* ------------------------------------------------------------- bounds
\* max_age and n_init are constructor parameters; the model runs a small
\* configuration of them.
MaxAge == 1
NInit == 2
\* Longest detection list handed to one update().
MaxDets == 2
\* update() is explored while the active set holds at most this many tracks.
MaxTracks == 2
\* Tracks constructed over one run.
MaxCreated == 3
\* Matched updates one track receives.
MaxHits == 3
\* A ledger counter is explored over 0..MaxCoverFrames and over the last
\* AgedWindow values before the horizon.
MaxCoverFrames == 1
AgedWindow == 2

\* ---------------------------------------------------------- constants
Horizon == 140
ReuseMin == 1
ReuseMax == 60
Tentative == 1
Confirmed == 2
Deleted == 3

\* Corner positions of boxes: distances 0, 1, 60 and 61.
Points == {<<0, 0>>, <<1, 0>>, <<61, 0>>}

VARIABLES tracks, next_id, Covered_lists, samples, created, call

vars == <<tracks, next_id, Covered_lists, samples, created, call>>

\* ------------------------------------------------------------ helpers
RECURSIVE SetToSeq(_)
\* The elements of a finite set of integers in ascending order.
SetToSeq(S) ==
    IF S = {} THEN <<>>
    ELSE LET m == CHOOSE x \in S : \A y \in S : x <= y
         IN <<m>> \o SetToSeq(S \ {m})

RemoveAt(s, i) == [k \in 1..(Len(s) - 1) |-> IF k < i THEN s[k] ELSE s[k + 1]]

\* -------------------------------------------------------------- Track
\* Track.__init__: a new track is Tentative, not covered.
\* uid (the object's identity) and reused (its id came from the ledger) are
\* bookkeeping of the model, read by no operation.
\* features is the length of the feature accumulator: the detection's
\* feature is its first element.
Track(track_id, n_init, max_age, uid, reused) ==
    [track_id |-> track_id, state |-> Tentative, time_since_update |-> 0,
     hits |-> 0, features |-> 1, Covered |-> FALSE, cover_frame |-> 0,
     n_init |-> n_init, max_age |-> max_age, uid |-> uid, reused |-> reused]

is_confirmed(t) == t.state = Confirmed

is_deleted(t) == t.state = Deleted

\* Track.predict: one more frame since the last match.
TrackPredict(t) == [t EXCEPT !.time_since_update = @ + 1]

\* Track.update: a match.
TrackUpdate(t) ==
    [t EXCEPT !.hits = @ + 1,
              !.features = @ + 1,
              !.time_since_update = 0,
              !.state = IF @ = Tentative /\ t.hits + 1 >= t.n_init
                        THEN Confirmed ELSE @]

\* Track.mark_missed: a miss.
mark_missed(t) ==
    [t EXCEPT !.state = IF @ = Tentative THEN Deleted
                        ELSE IF t.time_since_update > t.max_age THEN Deleted
                        ELSE @]

\* Track.is_Covered: a Confirmed track overlapping another live track's box.
is_Covered(t, track_covered, overlaps) ==
    IF is_confirmed(t) /\ Len(track_covered) >= 2 /\ overlaps
    THEN [t EXCEPT !.Covered = TRUE]
    ELSE t

\* ------------------------------------------------------------ Tracker
D2(a, b) == (b[1] - a[1]) * (b[1] - a[1]) + (b[2] - a[2]) * (b[2] - a[2])

\* Mutant of InWindow: the lower end of the window taken inclusive.
InWindow_Inclusive(d2) ==
    ReuseMin * ReuseMin <= d2 /\ d2 <= ReuseMax * ReuseMax

\* 1 < D <= 60 with D = sqrt(D2): on integers, 1 < D2 <= 3600.
InWindow(d2) == ReuseMin * ReuseMin < d2 /\ d2 <= ReuseMax * ReuseMax

\* Tracker.new_id_track: the first ledger entry inside the window is popped.
new_id_track(cl, detection) ==
    LET hits == {i \in 1..Len(cl) : InWindow(D2(detection, cl[i][2]))}
    IN IF hits = {}
       THEN [is_OLD |-> FALSE, OLD_ID |-> -1, Covered_lists |-> cl]
       ELSE LET i == CHOOSE k \in hits : \A j \in hits : k <= j
            IN [is_OLD |-> TRUE, OLD_ID |-> cl[i][1],
                Covered_lists |-> RemoveAt(cl, i)]

\* Mutant of initiate_track: n_init and max_age handed to Track in the
\* wrong order.
initiate_track_Swapped(st, detection) ==
    LET r == new_id_track(st.Covered_lists, detection)
        uid == st.created + 1
        id == IF r.is_OLD THEN r.OLD_ID ELSE st.next_id
    IN [tracks |-> Append(st.tracks, Track(id, MaxAge, NInit, uid, r.is_OLD)),
        next_id |-> IF r.is_OLD THEN st.next_id ELSE st.next_id + 1,
        Covered_lists |-> r.Covered_lists,
        created |-> uid,
        born |-> Append(st.born,
                    [tlwh |-> detection, ledger |-> st.Covered_lists,
                     next |-> st.next_id, track_id |-> id, uid |-> uid])]

\* Tracker._initiate_track on the tracker state st.
initiate_track(st, detection) ==
    LET r == new_id_track(st.Covered_lists, detection)
        uid == st.created + 1
        id == IF r.is_OLD THEN r.OLD_ID ELSE st.next_id
    IN [tracks |-> Append(st.tracks, Track(id, NInit, MaxAge, uid, r.is_OLD)),
        next_id |-> IF r.is_OLD THEN st.next_id ELSE st.next_id + 1,
        Covered_lists |-> r.Covered_lists,
        created |-> uid,
        born |-> Append(st.born,
                    [tlwh |-> detection, ledger |-> st.Covered_lists,
                     next |-> st.next_id, track_id |-> id, uid |-> uid])]

RECURSIVE InitiateAll(_, _)
\* The loop of update() over the unmatched detections.
InitiateAll(st, dets) ==
    IF dets = <<>> THEN st
    ELSE InitiateAll(initiate_track(st, Head(dets)), Tail(dets))

RECURSIVE PredictLoop_Strict(_, _)
\* Mutant of PredictLoop: an entry is dropped only past the horizon.
PredictLoop_Strict(cl, i) ==
    IF i > Len(cl) THEN cl
    ELSE LET c == [cl[i] EXCEPT ![3] = @ + 1]
         IN IF c[3] > Horizon
            THEN PredictLoop_Strict(RemoveAt(cl, i), i + 1)
            ELSE PredictLoop_Strict([cl EXCEPT ![i] = c], i + 1)

RECURSIVE PredictLoop(_, _)
\* The loop of predict() over the ledger: enumerate() walks the list by
\* index while pop(i) shortens it.
PredictLoop(cl, i) ==
    IF i > Len(cl) THEN cl
    ELSE LET c == [cl[i] EXCEPT ![3] = @ + 1]
         IN IF c[3] >= Horizon
            THEN PredictLoop(RemoveAt(cl, i), i + 1)
            ELSE PredictLoop([cl EXCEPT ![i] = c], i + 1)

\* One-to-one partial matchings of track indices A with detection indices B.
Matchings(A, B) ==
    {m \in SUBSET (A \X B) :
        \A p \in m, q \in m : p # q => (p[1] # q[1] /\ p[2] # q[2])}

\* Mutant of IouCandidates: every track the cascade left unmatched goes to
\* the IOU stage.
IouCandidates_All(trks, unconfirmed_tracks, unmatched_a) ==
    unconfirmed_tracks \cup unmatched_a

\* Tracker._match: iou_track_candidates.
IouCandidates(trks, unconfirmed_tracks, unmatched_a) ==
    unconfirmed_tracks \cup
        {k \in unmatched_a : trks[k].time_since_update = 1}

\* Mutant of UnmatchedTracks: the tracks the cascade left are forgotten.
UnmatchedTracks_OnlyB(unmatched_tracks_a, unmatched_tracks_b) ==
    unmatched_tracks_b

\* Tracker._match: unmatched_tracks.
UnmatchedTracks(unmatched_tracks_a, unmatched_tracks_b) ==
    unmatched_tracks_a \cup unmatched_tracks_b

\* Mutant of Matches: the cascade's matches are forgotten.
Matches_OnlyB(matches_a, matches_b) == matches_b

\* Tracker._match: matches.
Matches(matches_a, matches_b) == matches_a \cup matches_b

\* Tracker._match: every result the two assignment stages can return.
Match(trks, detections) ==
    LET all == 1..Len(trks)
        dets == 1..Len(detections)
        confirmed_tracks == {i \in all : is_confirmed(trks[i])}
        unconfirmed_tracks == {i \in all : ~is_confirmed(trks[i])}
        cascade == {i \in confirmed_tracks :
                        /\ 1 <= trks[i].time_since_update
                        /\ trks[i].time_since_update <= MaxAge}
    IN UNION {
         LET unmatched_a == confirmed_tracks \ {p[1] : p \in ma}
             dets_a == dets \ {p[2] : p \in ma}
             iou_track_candidates ==
                 IouCandidates(trks, unconfirmed_tracks, unmatched_a)
             unmatched_tracks_a ==
                 {k \in unmatched_a : trks[k].time_since_update # 1}
         IN { [matches |-> Matches(ma, mb),
               matches_a |-> ma, matches_b |-> mb,
               unmatched_tracks |-> UnmatchedTracks(unmatched_tracks_a,
                   iou_track_candidates \ {p[1] : p \in mb}),
               unmatched_detections |-> dets_a \ {p[2] : p \in mb}]
              : mb \in Matchings(iou_track_candidates, dets_a) }
         : ma \in Matchings(cascade, dets) }

\* Mutant of Survivors: the filter drops the deleted tracks only.
Survivors_KeepCovered(trks) == SelectSeq(trks, LAMBDA t : ~is_deleted(t))

\* Mutant of Survivors: the filter drops the covered tracks only.
Survivors_KeepDeleted(trks) == SelectSeq(trks, LAMBDA t : ~t.Covered)

\* The active set after update()'s filter.
Survivors(trks) == SelectSeq(trks, LAMBDA t : ~is_deleted(t) /\ ~t.Covered)

\* The ledger entries update() appends: one per track flagged covered.
CoveredEntries(trks, to_tlwh) ==
    LET cov == SelectSeq(trks, LAMBDA t : t.Covered)
    IN [k \in 1..Len(cov) |->
          <<cov[k].track_id, to_tlwh[cov[k].uid], cov[k].cover_frame,
            cov[k].uid>>]

\* update(): active_targets, the ids of the confirmed tracks.
ActiveTargets(trks) ==
    LET c == SelectSeq(trks, is_confirmed)
    IN [k \in 1..Len(c) |-> c[k].track_id]

\* NearestNeighborDistanceMetric.partial_fit on the ids that own a gallery:
\* the targets gain samples, then only the active ids are kept.
partial_fit(smp, targets, active_targets) ==
    (smp \cup targets) \cap {active_targets[k] : k \in 1..Len(active_targets)}

\* Mutant of Refit: no accumulator is cleared.
Refit_NoClear(trks, smp) ==
    LET active_targets == ActiveTargets(trks)
        targets == {trks[i].track_id : i \in
                       {j \in 1..Len(trks) :
                           is_confirmed(trks[j]) /\ trks[j].features > 0}}
    IN [tracks |-> trks,
        samples |-> partial_fit(smp, targets, active_targets),
        active_targets |-> active_targets]

\* update(): the metric refit, which empties the accumulator of every
\* confirmed track.
Refit(trks, smp) ==
    LET active_targets == ActiveTargets(trks)
        targets == {trks[i].track_id : i \in
                       {j \in 1..Len(trks) :
                           is_confirmed(trks[j]) /\ trks[j].features > 0}}
    IN [tracks |-> [i \in 1..Len(trks) |->
                      IF is_confirmed(trks[i])
                      THEN [trks[i] EXCEPT !.features = 0] ELSE trks[i]],
        samples |-> partial_fit(smp, targets, active_targets),
        active_targets |-> active_targets]

\* The orders a set of track indices can be walked in.
Orders(S) ==
    {o \in [1..Cardinality(S) -> S] :
        \A a \in 1..Cardinality(S), b \in 1..Cardinality(S) :
            a # b => o[a] # o[b]}

\* Track.to_tlwh of every live track, by uid: the Kalman filter's box.  Only
\* the boxes of the tracks in `overlap` are read after the overlap test.
Boxes(trks, overlap) ==
    LET uids == {trks[i].uid : i \in 1..Len(trks)}
        read == {trks[i].uid : i \in overlap}
        origin == CHOOSE p \in Points : TRUE
    IN {b \in [uids -> Points] : \A u \in uids \ read : b[u] = origin}

\* ------------------------------------------------------------ actions
\* call describes the call that produced the current state: the tracker at
\* its entry (pre), the number of detections, what _match returned and what
\* its two stages matched, the inputs of the cover test, the track list as it
\* stood before update() wrote the ledger and filtered (mid), the tracks it
\* created and the active ids the metric was refit with.
NoPre == [tracks |-> <<>>, Covered_lists |-> <<>>, next_id |-> 0,
          created |-> 0, samples |-> {}]

NoCall == [op |-> "init", pre |-> NoPre, ndets |-> 0, matches |-> {},
           matches_a |-> {}, matches_b |-> {},
           unmatched_tracks |-> {}, unmatched_detections |-> {},
           overlap |-> {}, to_tlwh |-> <<>>,
           mid |-> <<>>, born |-> <<>>, active_targets |-> <<>>]

Pre == [tracks |-> tracks, Covered_lists |-> Covered_lists,
        next_id |-> next_id, created |-> created, samples |-> samples]

\* Mutant of InitFresh: the id counter starts at 0.
InitFresh_ZeroBased ==
    /\ tracks = <<>>
    /\ next_id = 0
    /\ Covered_lists = <<>>
    /\ samples = {}
    /\ created = 0
    /\ call = NoCall

\* Tracker.__init__.
InitFresh ==
    /\ tracks = <<>>
    /\ next_id = 1
    /\ Covered_lists = <<>>
    /\ samples = {}
    /\ created = 0
    /\ call = NoCall

\* A tracker late in the life of a ledger, predict() having run up to the
\* horizon.  Tracks 1 and 2 were confirmed and track 1 was covered by track
\* 2; then track 2 aged out, or both had been covered in the same update(),
\* or track 2 was covered later by a Tentative track 3 that died at its
\* first miss (which took the counter back to 3).  In the last case both had
\* been covered in the same update(), a Tentative track then took the id of
\* entry 1 and died at its first miss, which took the counter to 2; uid
\* there numbers the objects the tracker still holds.
InitAged ==
    /\ tracks = <<>>
    /\ samples = {}
    /\ call = NoCall
    /\ \E f \in (Horizon - AgedWindow)..(Horizon - 1), p \in Points :
          \/ /\ Covered_lists = << <<1, p, f, 1>> >>
             /\ next_id = 3
             /\ created = 2
          \/ \E g \in (Horizon - AgedWindow)..f, q \in Points :
                /\ Covered_lists = << <<1, p, f, 1>>, <<2, q, g, 2>> >>
                /\ next_id = 3
                /\ created = IF g = f THEN 2 ELSE 3
          \/ /\ Covered_lists = << <<2, p, f, 1>> >>
             /\ next_id = 2
             /\ created = 1

Init == InitFresh \/ InitAged

\* Tracker.predict.
Predict ==
    /\ \A i \in 1..Len(tracks) : tracks[i].time_since_update <= MaxAge
    /\ \A i \in 1..Len(Covered_lists) :
          \/ Covered_lists[i][3] + 1 <= MaxCoverFrames
          \/ Covered_lists[i][3] >= Horizon - AgedWindow
    /\ tracks' = [i \in 1..Len(tracks) |-> TrackPredict(tracks[i])]
    /\ Covered_lists' = PredictLoop(Covered_lists, 1)
    /\ call' = [NoCall EXCEPT !.op = "predict", !.pre = Pre]
    /\ UNCHANGED <<next_id, created, samples>>

RECURSIVE MissLoop_ReclaimId(_, _, _, _)
\* Mutant of MissLoop: the counter is set back to the id of the deleted
\* track.
MissLoop_ReclaimId(st, order, track_covered, overlap) ==
    IF order = <<>> THEN st
    ELSE LET i == Head(order)
             t == mark_missed(is_Covered(st.tracks[i], track_covered,
                                         i \in overlap))
         IN MissLoop_ReclaimId(
                [tracks |-> [st.tracks EXCEPT ![i] = t],
                 next_id |-> IF t.state = Deleted /\ t.time_since_update = 1
                             THEN t.track_id ELSE st.next_id],
                Tail(order), track_covered, overlap)

RECURSIVE MissLoop(_, _, _, _)
\* update(): the loop over the unmatched tracks, walked in `order`.  Each is
\* tested for cover and marked missed, and a track deleted with
\* time_since_update = 1 takes the id counter one back.
MissLoop(st, order, track_covered, overlap) ==
    IF order = <<>> THEN st
    ELSE LET i == Head(order)
             t == mark_missed(is_Covered(st.tracks[i], track_covered,
                                         i \in overlap))
         IN MissLoop(
                [tracks |-> [st.tracks EXCEPT ![i] = t],
                 next_id |-> IF t.state = Deleted /\ t.time_since_update = 1
                             THEN st.next_id - 1 ELSE st.next_id],
                Tail(order), track_covered, overlap)

\* Mutant of ApplyMatches: the unmatched tracks are not marked missed.
ApplyMatches_NoMiss(trks, n, r, order, overlap, to_tlwh) ==
    LET track_covered == [i \in 1..Len(trks) |-> to_tlwh[trks[i].uid]]
    IN [tracks |-> [i \in 1..Len(trks) |->
                      IF \E p \in r.matches : p[1] = i
                      THEN TrackUpdate(trks[i])
                      ELSE IF i \in r.unmatched_tracks
                           THEN is_Covered(trks[i], track_covered,
                                           i \in overlap)
                           ELSE trks[i]],
        next_id |-> n]

\* Mutant of ApplyMatches: the matched tracks are not updated.
ApplyMatches_NoUpdate(trks, n, r, order, overlap, to_tlwh) ==
    LET track_covered == [i \in 1..Len(trks) |-> to_tlwh[trks[i].uid]]
    IN MissLoop([tracks |-> trks, next_id |-> n], order, track_covered,
                overlap)

\* update() up to the loop over the unmatched detections: the matched
\* tracks updated, the unmatched ones tested for cover and marked missed.
ApplyMatches(trks, n, r, order, overlap, to_tlwh) ==
    LET track_covered == [i \in 1..Len(trks) |-> to_tlwh[trks[i].uid]]
        updated == [i \in 1..Len(trks) |->
                      IF \E p \in r.matches : p[1] = i
                      THEN TrackUpdate(trks[i]) ELSE trks[i]]
    IN MissLoop([tracks |-> updated, next_id |-> n], order, track_covered,
                overlap)

\* update() as a function of the tracker at entry and of what its
\* collaborators return: the boxes of the unmatched detections (new), the
\* result r of _match, the order the unmatched tracks come out of the set
\* in, the tracks the cover test flags (overlap) and the boxes of the
\* tracks (to_tlwh).
UpdateResult(pre, new, r, order, overlap, to_tlwh) ==
    LET t1 == ApplyMatches(pre.tracks, pre.next_id, r, order, overlap,
                           to_tlwh)
        st == InitiateAll([tracks |-> t1.tracks, next_id |-> t1.next_id,
                           Covered_lists |-> pre.Covered_lists,
                           created |-> pre.created, born |-> <<>>], new)
        fit == Refit(Survivors(st.tracks), pre.samples)
    IN [tracks |-> fit.tracks,
        next_id |-> st.next_id,
        Covered_lists |->
            st.Covered_lists \o CoveredEntries(st.tracks, to_tlwh),
        created |-> st.created,
        samples |-> fit.samples,
        active_targets |-> fit.active_targets,
        mid |-> st.tracks,
        born |-> st.born]

\* Tracker.update(detections).
Update(detections) ==
    \E r \in Match(tracks, detections) :
    \E overlap \in SUBSET {i \in r.unmatched_tracks : is_confirmed(tracks[i])} :
    \E to_tlwh \in Boxes(tracks, overlap) :
    \E order \in Orders(r.unmatched_tracks) :
    \E res \in {UpdateResult(Pre,
                 [k \in 1..Cardinality(r.unmatched_detections) |->
                    detections[SetToSeq(r.unmatched_detections)[k]]],
                 r, order, overlap, to_tlwh)} :
         /\ res.created <= MaxCreated
         /\ \A i \in 1..Len(tracks) : res.mid[i].hits <= MaxHits
         /\ Len(res.tracks) <= MaxTracks
         /\ tracks' = res.tracks
         /\ next_id' = res.next_id
         /\ Covered_lists' = res.Covered_lists
         /\ created' = res.created
         /\ samples' = res.samples
         /\ call' = [op |-> "update", pre |-> Pre,
                     ndets |-> Len(detections), matches |-> r.matches,
                     matches_a |-> r.matches_a, matches_b |-> r.matches_b,
                     unmatched_tracks |-> r.unmatched_tracks,
                     unmatched_detections |-> r.unmatched_detections,
                     overlap |-> overlap, to_tlwh |-> to_tlwh,
                     mid |-> res.mid, born |-> res.born,
                     active_targets |-> res.active_targets]

Detections == UNION {[1..n -> Points] : n \in 0..MaxDets}

UpdateAny == \E detections \in Detections : Update(detections)

Next == Predict \/ UpdateAny

Spec == Init /\ [][Next]_vars

\* ------------------------------------------------------------- claims
IdsOf(trks) == {trks[i].track_id : i \in 1..Len(trks)}

LedgerIds == {Covered_lists[k][1] : k \in 1..Len(Covered_lists)}

\* The tracks of the last update() that missed, became Deleted and gave
\* their id back to the counter.
ReclaimedTracks ==
    {i \in call.unmatched_tracks :
        call.mid[i].state = Deleted /\ call.mid[i].time_since_update = 1}

\* C1: no two tracks of the active set carry the same track_id, and no id of
\* an active track is the id of a covered-ledger entry.
C1_UniqueIds ==
    /\ \A i \in 1..Len(tracks), j \in 1..Len(tracks) :
          i # j => tracks[i].track_id # tracks[j].track_id
    /\ IdsOf(tracks) \cap LedgerIds = {}

\* C2: the next-id counter never decreases from one call to the next.
C2_NextIdNeverDecreases == [][next_id' >= next_id]_vars

UidsOf(trks) == {trks[i].uid : i \in 1..Len(trks)}

LedgerUids == {Covered_lists[k][4] : k \in 1..Len(Covered_lists)}

\* The tracks that were in the active set when the last update() began.
Old == 1..Len(call.pre.tracks)

Live(i) == call.mid[i].uid \in UidsOf(tracks)

Ledgered(i) == call.mid[i].uid \in LedgerUids

\* C4: after update() every track is in exactly one of the active set, the
\* covered ledger, or deleted; a track the miss turned Deleted is not written
\* to the ledger, and only a track that was Confirmed is written to it.
C4_ExactlyOnePlace ==
    call.op = "update" =>
        \A i \in 1..Len(call.mid) :
            /\ \/ Live(i) /\ ~Ledgered(i) /\ ~is_deleted(call.mid[i])
               \/ ~Live(i) /\ Ledgered(i) /\ ~is_deleted(call.mid[i])
               \/ ~Live(i) /\ ~Ledgered(i) /\ is_deleted(call.mid[i])
            /\ Ledgered(i) => i \in Old /\ is_confirmed(call.pre.tracks[i])

\* The ledger entries within the reuse window of a detection box.
Near(ledger, tlwh) ==
    {k \in 1..Len(ledger) :
        /\ D2(tlwh, ledger[k][2]) > 1
        /\ D2(tlwh, ledger[k][2]) <= 3600}

\* The id counter after the k-th initiation of the last update().
NextAfter(k) ==
    IF k < Len(call.born) THEN call.born[k + 1].next ELSE next_id

\* C5: a track initiated for an unmatched detection with a ledger entry at
\* distance in (1, 60] takes that entry's id and leaves the counter alone;
\* with no such entry in the ledger it takes the next sequential id.
C5_OcclusionReuse ==
    call.op = "update" =>
        \A k \in 1..Len(call.born) :
            LET b == call.born[k]
                near == Near(b.ledger, b.tlwh)
            IN /\ \E i \in 1..Len(call.mid) :
                    /\ call.mid[i].uid = b.uid
                    /\ call.mid[i].track_id = b.track_id
               /\ near # {} =>
                    /\ \E e \in near : b.track_id = b.ledger[e][1]
                    /\ NextAfter(k) = b.next
               /\ near = {} =>
                    /\ b.track_id = b.next
                    /\ NextAfter(k) = b.next + 1

\* C5 witness: an update() initiated a track at distance 60 of one ledger
\* entry and outside the window of another, and the track took the id of the
\* first, not the counter's.
C5_Witness ==
    /\ call.op = "update"
    /\ \E k \in 1..Len(call.born) :
          LET b == call.born[k]
          IN /\ Len(b.ledger) = 2
             /\ \E e \in Near(b.ledger, b.tlwh) :
                   /\ D2(b.tlwh, b.ledger[e][2]) = 3600
                   /\ b.track_id = b.ledger[e][1]
             /\ Cardinality(Near(b.ledger, b.tlwh)) = 1
             /\ b.track_id # b.next

\* The entry of the ledger before the last predict() at position k is still
\* in the ledger.
Kept(k) == call.pre.Covered_lists[k][4] \in LedgerUids

\* C6 as claimed: predict() drops an entry exactly when its counter has
\* become greater than 140.
C6_DropsAbove140 ==
    call.op = "predict" =>
        \A k \in 1..Len(call.pre.Covered_lists) :
            Kept(k) <=> call.pre.Covered_lists[k][3] + 1 <= 140

\* C6 amended: predict() drops an entry only when its counter has reached
\* 140; an entry whose counter is at most 139 stays; none stays at 140.
C6_DropsAt140 ==
    call.op = "predict" =>
        /\ \A k \in 1..Len(call.pre.Covered_lists) :
              /\ ~Kept(k) => call.pre.Covered_lists[k][3] + 1 >= 140
              /\ call.pre.Covered_lists[k][3] + 1 <= 139 => Kept(k)
        /\ \A k \in 1..Len(Covered_lists) : Covered_lists[k][3] <= 139

\* C6 witness: a predict() dropped an entry whose counter went from 139 to
\* 140.
C6_Witness ==
    /\ call.op = "predict"
    /\ \E k \in 1..Len(call.pre.Covered_lists) :
          ~Kept(k) /\ call.pre.Covered_lists[k][3] = 139

\* The lifecycle's steps.
Lifecycle == {<<Tentative, Tentative>>, <<Confirmed, Confirmed>>,
              <<Tentative, Confirmed>>, <<Tentative, Deleted>>,
              <<Confirmed, Deleted>>}

\* C7: a call moves a track only Tentative->Confirmed, Tentative->Deleted or
\* Confirmed->Deleted; a Deleted track is never in the active set again.
C7_LifecycleMonotone ==
    /\ \A i \in 1..Len(tracks) : ~is_deleted(tracks[i])
    /\ call.op = "predict" =>
          /\ Len(tracks) = Len(call.pre.tracks)
          /\ \A i \in 1..Len(tracks) :
                /\ tracks[i].uid = call.pre.tracks[i].uid
                /\ tracks[i].state = call.pre.tracks[i].state
    /\ call.op = "update" =>
          /\ \A i \in Old :
                /\ call.mid[i].uid = call.pre.tracks[i].uid
                /\ <<call.pre.tracks[i].state, call.mid[i].state>> \in Lifecycle
          /\ \A j \in 1..Len(tracks) :
                \E i \in 1..Len(call.mid) :
                    /\ call.mid[i].uid = tracks[j].uid
                    /\ call.mid[i].state = tracks[j].state
                    /\ i \notin Old => tracks[j].state = Tentative

\* C7 witness: one update() confirmed a Tentative track and deleted a
\* Confirmed one.
C7_Witness ==
    /\ call.op = "update"
    /\ \E i \in Old, j \in Old :
          /\ call.pre.tracks[i].state = Tentative
          /\ call.mid[i].state = Confirmed
          /\ call.pre.tracks[j].state = Confirmed
          /\ call.mid[j].state = Deleted

\* C8: a Tentative track left unmatched by update() is Deleted by it and is
\* not in the active set afterwards.
C8_TentativeMissDeleted ==
    call.op = "update" =>
        \A i \in call.unmatched_tracks :
            call.pre.tracks[i].state = Tentative =>
                is_deleted(call.mid[i]) /\ ~Live(i)

\* C8 witness: an update() left a Tentative track unmatched.
C8_Witness ==
    /\ call.op = "update"
    /\ \E i \in call.unmatched_tracks : call.pre.tracks[i].state = Tentative

\* C9: a Confirmed track unmatched with time_since_update > max_age is
\* Deleted and out of the active set; one unmatched with time_since_update
\* <= max_age and not covered stays Confirmed in the active set.
C9_MaxAgeEviction ==
    call.op = "update" =>
        \A i \in call.unmatched_tracks :
            call.pre.tracks[i].state = Confirmed =>
                /\ call.pre.tracks[i].time_since_update > MaxAge =>
                      is_deleted(call.mid[i]) /\ ~Live(i)
                /\ (/\ call.pre.tracks[i].time_since_update <= MaxAge
                    /\ ~call.mid[i].Covered) =>
                      is_confirmed(call.mid[i]) /\ Live(i)

\* C9 witness: one update() deleted a Confirmed track past max_age and kept
\* another that missed at max_age.
C9_Witness ==
    /\ call.op = "update"
    /\ \E i \in call.unmatched_tracks, j \in call.unmatched_tracks :
          /\ call.pre.tracks[i].state = Confirmed
          /\ call.pre.tracks[i].time_since_update = MaxAge + 1
          /\ call.pre.tracks[j].state = Confirmed
          /\ call.pre.tracks[j].time_since_update = MaxAge
          /\ ~call.mid[j].Covered

\* The tracks the last update() matched.
Matched == {p[1] : p \in call.matches}

C11_MetricPruned ==
    call.op = "update" =>
        /\ call.active_targets = ActiveTargets(tracks)
        /\ \A i \in 1..Len(call.mid) :
              \/ is_deleted(call.mid[i])
              \/ call.mid[i].Covered
              \/ ~is_confirmed(call.mid[i])
              => call.mid[i].track_id \notin samples

\* The last update() replayed from the tracker at its entry with the same
\* answers of its collaborators, the unmatched tracks walked in `order`.
Replay(order) ==
    UpdateResult(call.pre,
                 [k \in 1..Len(call.born) |-> call.born[k].tlwh],
                 [matches |-> call.matches,
                  unmatched_tracks |-> call.unmatched_tracks,
                  unmatched_detections |-> call.unmatched_detections],
                 order, call.overlap, call.to_tlwh)

\* C12: a tracker fed the same call with the same answers of its
\* collaborators ends the frame with the same active set (ids, order and
\* track states), the same covered ledger, the same galleries and the same
\* next-id counter, whatever the order in which the unmatched tracks are
\* processed.
C12_ReplayDeterminism ==
    call.op = "update" =>
        \A order \in Orders(call.unmatched_tracks) :
            /\ Replay(order).tracks = tracks
            /\ Replay(order).next_id = next_id
            /\ Replay(order).Covered_lists = Covered_lists
            /\ Replay(order).samples = samples

\* An update() in which two unmatched tracks with different ids were both
\* deleted at their first miss, each taking the counter one back.
C12_Witness ==
    /\ call.op = "update"
    /\ \E i \in ReclaimedTracks, j \in ReclaimedTracks :
          call.mid[i].track_id # call.mid[j].track_id
    /\ next_id = call.pre.next_id - 2

\* C13: predict() ages every covered-ledger entry by exactly one frame: each
\* entry present before predict() either has its counter one higher after,
\* or has been dropped because its counter reached the horizon.
C13_EveryEntryAged ==
    call.op = "predict" =>
        \A k \in 1..Len(call.pre.Covered_lists) :
            LET e == call.pre.Covered_lists[k]
            IN IF \E m \in 1..Len(Covered_lists) : Covered_lists[m][4] = e[4]
               THEN \E m \in 1..Len(Covered_lists) :
                        /\ Covered_lists[m][4] = e[4]
                        /\ Covered_lists[m][3] = e[3] + 1
               ELSE e[3] + 1 >= Horizon

\* C14: the IOU stage of _match matches only unconfirmed tracks and
\* Confirmed tracks the cascade left unmatched whose time_since_update is 1;
\* a Confirmed track left unmatched by the cascade with time_since_update
\* other than 1 is returned as unmatched; the cascade matches no unconfirmed
\* track; and no track is matched by both stages.
C14_IouCandidates ==
    call.op = "update" =>
        LET trks == call.pre.tracks
            in_a == {p[1] : p \in call.matches_a}
            in_b == {p[1] : p \in call.matches_b}
        IN /\ \A i \in in_b :
                 \/ ~is_confirmed(trks[i])
                 \/ /\ i \notin in_a
                    /\ trks[i].time_since_update = 1
           /\ \A i \in 1..Len(trks) :
                 /\ is_confirmed(trks[i])
                 /\ i \notin in_a
                 /\ trks[i].time_since_update # 1
                 => /\ i \notin in_b
                    /\ i \in call.unmatched_tracks
                    /\ i \notin Matched
           /\ \A i \in in_a : is_confirmed(trks[i])
           /\ in_a \cap in_b = {}

\* An update() in which a Confirmed track not seen for two frames stayed
\* unmatched while a detection was left over, and an unconfirmed track was
\* matched by the IOU stage.
C14_Witness ==
    /\ call.op = "update"
    /\ \E i \in call.unmatched_tracks :
          /\ is_confirmed(call.pre.tracks[i])
          /\ call.pre.tracks[i].time_since_update = 2
    /\ \E p \in call.matches_b : ~is_confirmed(call.pre.tracks[p[1]])
    /\ call.unmatched_detections # {}

\* An update() in which the IOU stage matched a Confirmed track that the
\* cascade had left unmatched after one missed frame.
C14_WitnessRecent ==
    /\ call.op = "update"
    /\ \E p \in call.matches_b :
          /\ is_confirmed(call.pre.tracks[p[1]])
          /\ call.pre.tracks[p[1]].time_since_update = 1

\* The position in the track list of the last update() before its filter
\* of the track that stands at position j of the active set.
MidIndex(j) ==
    CHOOSE i \in 1..Len(call.mid) : call.mid[i].uid = tracks[j].uid

\* The ledger entries the last update() appended.
Appended ==
    SubSeq(Covered_lists,
           Len(Covered_lists) + 1
               - Cardinality({i \in 1..Len(call.mid) : call.mid[i].Covered}),
           Len(Covered_lists))

\* C15: after update() the active set holds no Deleted track and no track
\* flagged covered; every track flagged covered during the update has had
\* exactly one entry carrying its id appended to the covered ledger; and
\* the surviving tracks keep their relative order, the tracks created in
\* the update standing after them.
C15_FilterAndLedger ==
    call.op = "update" =>
        /\ \A j \in 1..Len(tracks) :
              ~is_deleted(tracks[j]) /\ ~tracks[j].Covered
        /\ \A i \in 1..Len(call.mid) :
              call.mid[i].Covered =>
                  Cardinality({k \in 1..Len(Appended) :
                      /\ Appended[k][4] = call.mid[i].uid
                      /\ Appended[k][1] = call.mid[i].track_id}) = 1
        /\ \A j \in 1..Len(tracks) :
              \E i \in 1..Len(call.mid) : call.mid[i].uid = tracks[j].uid
        /\ \A j \in 1..Len(tracks), k \in 1..Len(tracks) :
              j < k => MidIndex(j) < MidIndex(k)
        /\ \A j \in 1..Len(tracks), k \in 1..Len(tracks) :
              /\ MidIndex(j) \in Old
              /\ MidIndex(k) \notin Old
              => j < k

\* An update() that flagged a track covered, kept another track of the
\* active set and created a track, which stands after the one kept.
C15_Witness ==
    /\ call.op = "update"
    /\ \E i \in Old : call.mid[i].Covered
    /\ \E j \in 1..Len(tracks), k \in 1..Len(tracks) :
          /\ j < k
          /\ MidIndex(j) \in Old
          /\ MidIndex(k) \notin Old

\* C16: update() with no detection matches nothing, creates no track, does
\* not increment the next-id counter, gives every track of the active set
\* exactly one miss and takes no entry from the covered ledger; with an
\* empty active set too, it changes nothing in the active set, the ledger
\* or the id counter.
C16_EmptyDetections ==
    call.op = "update" /\ call.ndets = 0 =>
        /\ call.matches = {}
        /\ call.born = <<>>
        /\ Len(call.mid) = Len(call.pre.tracks)
        /\ created = call.pre.created
        /\ next_id <= call.pre.next_id
        /\ call.unmatched_tracks = Old
        /\ \A i \in Old :
              /\ call.mid[i].hits = call.pre.tracks[i].hits
              /\ call.mid[i].time_since_update
                     = call.pre.tracks[i].time_since_update
              /\ call.pre.tracks[i].state = Tentative
                     => call.mid[i].state = Deleted
        /\ next_id = call.pre.next_id - Cardinality(ReclaimedTracks)
        /\ SubSeq(Covered_lists, 1, Len(call.pre.Covered_lists))
               = call.pre.Covered_lists
        /\ call.pre.tracks = <<>> =>
              /\ tracks = <<>>
              /\ Covered_lists = call.pre.Covered_lists
              /\ next_id = call.pre.next_id

\* An update() with no detection on an active set of a Confirmed track that
\* had not been seen for two frames and a Tentative one, beside a ledger
\* that held an entry.
C16_Witness ==
    /\ call.op = "update"
    /\ call.ndets = 0
    /\ call.pre.Covered_lists # <<>>
    /\ \E i \in Old :
          /\ is_confirmed(call.pre.tracks[i])
          /\ call.pre.tracks[i].time_since_update = 2
    /\ \E i \in Old : call.pre.tracks[i].state = Tentative

\* An update() with no detection on an empty active set beside a ledger
\* that held an entry.
C16_WitnessIdle ==
    /\ call.op = "update"
    /\ call.ndets = 0
    /\ call.pre.tracks = <<>>
    /\ call.pre.Covered_lists # <<>>

\* C17 as stated: when update() returns, every track of the active set,
\* Tentative or Confirmed, has an empty features sequence.
C17_AllFeaturesCleared ==
    call.op = "update" =>
        \A j \in 1..Len(tracks) : tracks[j].features = 0

\* C17: when update() returns, every Confirmed track of the active set has
\* an empty features sequence, and every Tentative track still holds the
\* features it gathered: one from the detection that created it and one per
\* match since.
C17_ConfirmedFeaturesCleared ==
    call.op = "update" =>
        \A j \in 1..Len(tracks) :
            /\ is_confirmed(tracks[j]) => tracks[j].features = 0
            /\ ~is_confirmed(tracks[j]) =>
                  /\ tracks[j].features = call.mid[MidIndex(j)].features
                  /\ tracks[j].features = tracks[j].hits + 1

\* An update() that confirmed a track, whose three features went to the
\* metric, beside a Tentative track that keeps its two.
C17_Witness ==
    /\ call.op = "update"
    /\ \E j \in 1..Len(tracks) :
          /\ is_confirmed(tracks[j])
          /\ call.mid[MidIndex(j)].features = NInit + 1
          /\ tracks[j].features = 0
    /\ \E j \in 1..Len(tracks) :
          /\ ~is_confirmed(tracks[j])
          /\ tracks[j].features = 2

\* The detections of the last update(), by position.
Dets == 1..call.ndets

\* C18: in each update() every track of the active set at entry receives
\* exactly one of a match update or a miss, no track is matched twice, and
\* every detection is either matched to exactly one track or spawns exactly
\* one new track.
C18_ExactlyOneOutcome ==
    call.op = "update" =>
        /\ Len(call.mid) = Len(call.pre.tracks) + Len(call.born)
        /\ \A i \in Old :
              /\ (i \in Matched) # (i \in call.unmatched_tracks)
              /\ Cardinality({p \in call.matches : p[1] = i})
                     = IF i \in Matched THEN 1 ELSE 0
              /\ i \in Matched =>
                    /\ call.mid[i].hits = call.pre.tracks[i].hits + 1
                    /\ call.mid[i].time_since_update = 0
              /\ i \in call.unmatched_tracks =>
                    /\ call.mid[i].hits = call.pre.tracks[i].hits
                    /\ call.mid[i].time_since_update
                           = call.pre.tracks[i].time_since_update
                    /\ call.pre.tracks[i].state = Tentative
                           => call.mid[i].state = Deleted
        /\ \A p \in call.matches : p[1] \in Old /\ p[2] \in Dets
        /\ call.unmatched_detections \subseteq Dets
        /\ \A d \in Dets :
              /\ (d \in call.unmatched_detections)
                     # (\E p \in call.matches : p[2] = d)
              /\ Cardinality({p \in call.matches : p[2] = d}) <= 1
        /\ Len(call.born) = Cardinality(call.unmatched_detections)
        /\ \A k \in 1..Len(call.born) :
              call.mid[Len(call.pre.tracks) + k].uid = call.born[k].uid
        /\ \A k \in 1..Len(call.born), m \in 1..Len(call.born) :
              k # m => call.born[k].uid # call.born[m].uid

\* An update() in which one track was matched by the cascade, another
\* missed, and a detection left over spawned a track.
C18_Witness ==
    /\ call.op = "update"
    /\ call.matches_a # {}
    /\ call.unmatched_tracks # {}
    /\ call.unmatched_detections # {}
    /\ Len(call.born) = 1

\* The covered ledger after the k-th initiation of the last update().
LedgerAfter(k) ==
    IF k < Len(call.born) THEN call.born[k + 1].ledger
    ELSE SubSeq(Covered_lists, 1, Len(Covered_lists) - Len(Appended))

\* C19: a covered-ledger entry gives its id to at most one new track: an
\* initiation that reuses an entry removes exactly that entry, the first in
\* ledger order inside the distance window, and leaves every other entry
\* unchanged; an initiation that reuses none leaves the ledger unchanged;
\* and two detections of one update() that are both within the window of
\* one entry get different ids.
C19_EntryUsedOnce ==
    call.op = "update" =>
        /\ \A k \in 1..Len(call.born) :
              LET b == call.born[k]
                  near == Near(b.ledger, b.tlwh)
              IN IF near = {} THEN LedgerAfter(k) = b.ledger
                 ELSE LET first == CHOOSE e \in near :
                                       \A o \in near : e <= o
                      IN /\ b.track_id = b.ledger[first][1]
                         /\ LedgerAfter(k) = RemoveAt(b.ledger, first)
        /\ \A k \in 1..Len(call.born), m \in 1..Len(call.born) :
              /\ k # m
              /\ \E e \in 1..Len(call.pre.Covered_lists) :
                    /\ e \in Near(call.pre.Covered_lists, call.born[k].tlwh)
                    /\ e \in Near(call.pre.Covered_lists, call.born[m].tlwh)
              => call.born[k].track_id # call.born[m].track_id

====
